---- MODULE Spec2Model ----
(***************************************************************************)
(* A model of three leaf components of the sqlx sources:                   *)
(*   - BackendKeyData::decode   (postgres/protocol/backend_key_data.rs)    *)
(*   - StatementRef::serialize_with (protocol/frontend/statement.rs)       *)
(*   - QueryString and its constructors (sqlx-core/src/query_string.rs)    *)
(* The components share no state, so each has its own specification       *)
(* (SpecBKD, SpecStmt, SpecQS), under which the variables of the other     *)
(* two stay at their initial value.                                        *)
(*                                                                         *)
(* A u32 is kept as two 16-bit halves [hi, lo] (value hi * 65536 + lo), so *)
(* that the full 32-bit width is represented exactly.                      *)
(***************************************************************************)
EXTENDS Integers, Sequences, FiniteSets, TLC

VARIABLES
    stream,     \* BKD: the caller's receive buffer (bytes received so far)
    wire,       \* BKD: every byte the backend has sent so far (history)
    last,       \* BKD: the outcome of the latest BackendKeyData::decode call
    buf,        \* Stmt: the Vec<u8> the frontend messages are serialized into
    prior,      \* Stmt: the content of buf before the first serialize_with (history)
    next_id,    \* Stmt: the per-connection statement counter (a u32)
    calls,      \* Stmt: the serialize_with calls made so far (history)
    heap,       \* QS: string buffers: static data, caller-owned strings, allocations
    qs,         \* QS: the live QueryString values
    obs         \* QS: what the latest operation returned

vars == <<stream, wire, last, buf, prior, next_id, calls, heap, qs, obs>>
bkdVars == <<stream, wire, last>>
stmtVars == <<buf, prior, next_id, calls>>
qsVars == <<heap, qs, obs>>

(***************************************************************************)
(* Bytes and u32                                                           *)
(***************************************************************************)
Byte == 0..255

\* a u32 from its two 16-bit halves
U32(h, l) == [hi |-> h, lo |-> l]

\* a u32 from a number below 2^16
U32Small(n) == U32(0, n)

U32Max == U32(65535, 65535)

U32Less(a, b) == a.hi < b.hi \/ (a.hi = b.hi /\ a.lo < b.lo)

\* (n / 10, n % 10) of a u32, by long division over the halves
U32DivMod10(n) ==
    LET qh == n.hi \div 10
        rh == n.hi % 10
        mid == rh * 65536 + n.lo
    IN  [quot |-> U32(qh, mid \div 10), rem |-> mid % 10]

IsPrefix(p, s) == Len(p) <= Len(s) /\ SubSeq(s, 1, Len(p)) = p

Drop(s, n) == SubSeq(s, n + 1, Len(s))

(***************************************************************************)
(* BackendKeyData                                                          *)
(***************************************************************************)
NetworkEndian == "BigEndian"

\* byteorder's ByteOrder::read_u32 on the first four bytes of a slice
read_u32(order, b) ==
    IF order = "BigEndian"
    THEN U32(b[1] * 256 + b[2], b[3] * 256 + b[4])
    ELSE U32(b[4] * 256 + b[3], b[2] * 256 + b[1])

\* crate::io::Buf::get_u32 on a byte slice: the value and the advanced slice,
\* or an io error when fewer than four bytes remain
get_u32(order, b) ==
    IF Len(b) < 4
    THEN [ok |-> FALSE, err |-> "UnexpectedEof", rest |-> b]
    ELSE [ok |-> TRUE, val |-> read_u32(order, b), rest |-> Drop(b, 4)]

NoMessage == [present |-> FALSE]

BackendKeyData(pid, key) == [present |-> TRUE, process_id |-> pid, secret_key |-> key]

\* faulty variant: the two fields are read in the wrong order
decode_swapped(b) ==
    LET r1 == get_u32(NetworkEndian, b)
    IN  IF ~r1.ok THEN [outcome |-> r1.err, msg |-> NoMessage, rest |-> r1.rest]
        ELSE LET r2 == get_u32(NetworkEndian, r1.rest)
             IN  IF ~r2.ok THEN [outcome |-> r2.err, msg |-> NoMessage, rest |-> r2.rest]
                 ELSE [outcome |-> "Ok", msg |-> BackendKeyData(r2.val, r1.val),
                       rest |-> r2.rest]

\* faulty variant: a missing second field is defaulted instead of propagated with `?`
decode_lenient(b) ==
    LET r1 == get_u32(NetworkEndian, b)
    IN  IF ~r1.ok THEN [outcome |-> r1.err, msg |-> NoMessage, rest |-> r1.rest]
        ELSE LET r2 == get_u32(NetworkEndian, r1.rest)
             IN  [outcome |-> "Ok",
                  msg |-> BackendKeyData(r1.val, IF r2.ok THEN r2.val ELSE U32Small(0)),
                  rest |-> r2.rest]

\* BackendKeyData::decode(mut buf: &[u8]): `rest` is the local slice after the
\* reads; the slice is passed by value, so the caller's buffer is not advanced
decode(b) ==
    LET r1 == get_u32(NetworkEndian, b)
    IN  IF ~r1.ok THEN [outcome |-> r1.err, msg |-> NoMessage, rest |-> r1.rest]
        ELSE LET r2 == get_u32(NetworkEndian, r1.rest)
             IN  IF ~r2.ok THEN [outcome |-> r2.err, msg |-> NoMessage, rest |-> r2.rest]
                 ELSE [outcome |-> "Ok", msg |-> BackendKeyData(r1.val, r2.val),
                       rest |-> r2.rest]

process_id(m) == m.process_id

secret_key(m) == m.secret_key

\* the payload of tests::it_decodes_backend_key_data, b"\0\0'\xc6\x89R\xc5+"
BACKEND_KEY_DATA == <<0, 0, 39, 198, 137, 82, 197, 43>>

MaxStream == 9

ByteSamples == {0, 255}

\* what one read from the socket may deliver
Chunks ==
    {<<b>> : b \in ByteSamples}
        \cup {SubSeq(BACKEND_KEY_DATA, 1, 4), SubSeq(BACKEND_KEY_DATA, 5, 8)}

NoCall == [outcome |-> "none", msg |-> NoMessage, input |-> <<>>, rest |-> <<>>]

InitBKDVars ==
    /\ stream = <<>>
    /\ wire = <<>>
    /\ last = NoCall

\* the socket delivers more bytes into the caller's buffer
Receive ==
    /\ UNCHANGED <<stmtVars, qsVars>>
    /\ \E c \in Chunks :
           /\ Len(stream) + Len(c) <= MaxStream
           /\ stream' = stream \o c
           /\ wire' = wire \o c
           /\ UNCHANGED last

\* the caller hands the buffer to BackendKeyData::decode
Decode ==
    /\ UNCHANGED <<stmtVars, qsVars>>
    /\ LET r == decode(stream)
       IN  /\ last' = [outcome |-> r.outcome, msg |-> r.msg, input |-> stream,
                       rest |-> r.rest]
           /\ UNCHANGED <<stream, wire>>

(***************************************************************************)
(* StatementRef                                                            *)
(***************************************************************************)
Unnamed == [tag |-> "Unnamed"]

Named(id) == [tag |-> "Named", id |-> id]

\* itoa::write for a u32: its decimal digits in ASCII, most significant first
RECURSIVE itoa(_)
itoa(n) ==
    LET d == U32DivMod10(n)
    IN  IF d.quot = U32Small(0) THEN <<48 + d.rem>>
        ELSE itoa(d.quot) \o <<48 + d.rem>>

\* b"_sqlx_s_"
NamePrefix == <<95, 115, 113, 108, 120, 95, 115, 95>>

\* the two's complement negation of a u32 (the magnitude of a negative i32)
U32Neg(n) ==
    IF n.lo = 0 THEN U32((65536 - n.hi) % 65536, 0)
    ELSE U32(65535 - n.hi, 65536 - n.lo)

\* faulty variant: the id is written as a signed 32-bit integer (`*id as i32`)
serialize_with_signed(self, b) ==
    LET named == IF self.tag = "Named"
                 THEN b \o NamePrefix
                        \o (IF self.id.hi >= 32768
                            THEN <<45>> \o itoa(U32Neg(self.id))
                            ELSE itoa(self.id))
                 ELSE b
    IN  [result |-> "Ok", buf |-> named \o <<0>>]

\* faulty variant: the id is truncated to 16 bits before it is written (`*id as u16`)
serialize_with_truncated(self, b) ==
    LET named == IF self.tag = "Named"
                 THEN b \o NamePrefix \o itoa(U32Small(self.id.lo))
                 ELSE b
    IN  [result |-> "Ok", buf |-> named \o <<0>>]

\* faulty variant: the buffer is cleared before the name is written
serialize_with_clearing(self, b) ==
    LET named == IF self.tag = "Named"
                 THEN NamePrefix \o itoa(self.id)
                 ELSE <<>>
    IN  [result |-> "Ok", buf |-> named \o <<0>>]

\* StatementRef::serialize_with(&self, buf: &mut Vec<u8>, _: ()) -> Result<()>
serialize_with(self, b) ==
    LET named == IF self.tag = "Named"
                 THEN b \o NamePrefix \o itoa(self.id)
                 ELSE b
    IN  [result |-> "Ok", buf |-> named \o <<0>>]

MaxCalls == 3

MaxSmallId == 10

\* the counter values the model visits: the small ones and the ones around a
\* change of digit count, of half and of sign bit, up to u32::MAX
IdSamples ==
    {U32Small(n) : n \in 0..MaxSmallId}
        \cup {U32Small(99), U32Small(100), U32Small(65535), U32(1, 0),
              U32(32767, 65535), U32(32768, 0), U32Max}

\* what the buffer may hold before the first serialize_with
PriorContents == {<<>>, <<66, 0, 49>>}

InitStmtVars ==
    /\ prior = <<>>
    /\ buf = <<>>
    /\ next_id = [id |-> U32Small(0), spent |-> FALSE]
    /\ calls = <<>>

Call(self, r) == [ref |-> self, before |-> buf, after |-> r.buf, result |-> r.result]

\* a message referring to the unnamed statement is serialized
SerializeUnnamed ==
    /\ Len(calls) < MaxCalls
    /\ LET r == serialize_with(Unnamed, buf)
       IN  /\ buf' = r.buf
           /\ calls' = Append(calls, Call(Unnamed, r))
    /\ UNCHANGED <<prior, next_id, bkdVars, qsVars>>

\* a new statement takes the counter's value as its id and is serialized; the
\* counter moves on to a greater value (ids in between belong to statements
\* whose messages are not shown), or is spent after u32::MAX
SerializeNamed ==
    /\ Len(calls) < MaxCalls
    /\ ~next_id.spent
    /\ LET r == serialize_with(Named(next_id.id), buf)
       IN  /\ buf' = r.buf
           /\ calls' = Append(calls, Call(Named(next_id.id), r))
    /\ \/ \E i \in IdSamples :
            /\ U32Less(next_id.id, i)
            /\ next_id' = [id |-> i, spent |-> FALSE]
       \/ /\ next_id.id = U32Max
          /\ next_id' = [id |-> U32Max, spent |-> TRUE]
    /\ UNCHANGED <<prior, bkdVars, qsVars>>

(***************************************************************************)
(* QueryString                                                             *)
(*                                                                         *)
(* heap is the sequence of string buffers; a cell records where the buffer *)
(* lives (kind), its bytes (text) and who made it (by).  A QueryString is  *)
(* [repr, ptr]: the Repr variant and the buffer its payload points to.     *)
(* An entry of qs pairs the value with the text it was constructed from.   *)
(***************************************************************************)
MaxVals == 2

\* the SQL texts the model constructs QueryStrings from: "S" and "S;"
Texts == {<<83>>, <<83, 59>>}

Cell(kind, text, by) == [kind |-> kind, text |-> text, by |-> by]

\* the construction paths: the type into_query_string is called on
Paths == {"&'static str", "AssertQuerySafe<&T>", "AssertQuerySafe<String>",
          "AssertQuerySafe<Box<str>>", "AssertQuerySafe<Arc<str>>"}

\* where the caller's string of each path lives
SourceKind(path) ==
    CASE path = "&'static str" -> "static"
      [] path = "AssertQuerySafe<&T>" -> "borrowed"
      [] path = "AssertQuerySafe<String>" -> "String"
      [] path = "AssertQuerySafe<Box<str>>" -> "Box"
      [] path = "AssertQuerySafe<Arc<str>>" -> "Arc"

QueryString(repr, ptr) == [repr |-> repr, ptr |-> ptr]

\* QuerySafeStr::into_query_string for the five string types: the caller's
\* buffer at ptr is wrapped, never copied
into_query_string(path, ptr) ==
    CASE path = "&'static str" -> QueryString("Static", ptr)
      [] path = "AssertQuerySafe<&T>" -> QueryString("Slice", ptr)
      [] path = "AssertQuerySafe<String>" -> QueryString("Owned", ptr)
      [] path = "AssertQuerySafe<Box<str>>" -> QueryString("Boxed", ptr)
      [] path = "AssertQuerySafe<Arc<str>>" -> QueryString("Arced", ptr)

\* impl QuerySafeStr for QueryString: into_query_string(self) is self
into_query_string_self(q) == q

\* faulty variant: the copy of a borrowed slice drops its last byte
into_static_short(h, q) ==
    IF q.repr = "Slice"
    THEN [heap |-> Append(h, Cell("Box",
                                  SubSeq(h[q.ptr].text, 1, Len(h[q.ptr].text) - 1),
                                  "into_static")),
          val |-> QueryString("Boxed", Len(h) + 1)]
    ELSE [heap |-> h, val |-> q]

\* faulty variant: an owned String is boxed (copied) as well
into_static_boxing(h, q) ==
    IF q.repr \in {"Slice", "Owned"}
    THEN [heap |-> Append(h, Cell("Box", h[q.ptr].text, "into_static")),
          val |-> QueryString("Boxed", Len(h) + 1)]
    ELSE [heap |-> h, val |-> q]

\* faulty variant: a borrowed slice is copied into a fresh allocation but the
\* result still holds the borrowed slice
into_static_borrowing(h, q) ==
    IF q.repr = "Slice"
    THEN [heap |-> Append(h, Cell("Box", h[q.ptr].text, "into_static")), val |-> q]
    ELSE [heap |-> h, val |-> q]

\* QueryString::into_static(self): the heap and the value afterwards
into_static(h, q) ==
    CASE q.repr = "Slice" ->
            [heap |-> Append(h, Cell("Box", h[q.ptr].text, "into_static")),
             val |-> QueryString("Boxed", Len(h) + 1)]
      [] q.repr = "Static" -> [heap |-> h, val |-> QueryString("Static", q.ptr)]
      [] q.repr = "Owned" -> [heap |-> h, val |-> QueryString("Owned", q.ptr)]
      [] q.repr = "Boxed" -> [heap |-> h, val |-> QueryString("Boxed", q.ptr)]
      [] q.repr = "Arced" -> [heap |-> h, val |-> QueryString("Arced", q.ptr)]

\* QueryString::as_str(&self)
as_str(h, q) ==
    CASE q.repr = "Slice" -> h[q.ptr].text
      [] q.repr = "Static" -> h[q.ptr].text
      [] q.repr = "Owned" -> h[q.ptr].text
      [] q.repr = "Boxed" -> h[q.ptr].text
      [] q.repr = "Arced" -> h[q.ptr].text

\* impl AsRef<str> for QueryString
as_ref(h, q) == as_str(h, q)

\* impl Borrow<str> for QueryString
borrow(h, q) == as_str(h, q)

\* the right-hand side of ==: a QueryString or a plain string, both AsRef<str>
\* (j is the place of that QueryString in qs, 0 for a plain string)
OtherQuery(j, q) == [isQuery |-> TRUE, j |-> j, val |-> q, text |-> <<>>]

OtherStr(s) == [isQuery |-> FALSE, j |-> 0, val |-> QueryString("none", 0), text |-> s]

\* other.as_ref() for T: AsRef<str>
other_as_ref(h, other) == IF other.isQuery THEN as_ref(h, other.val) ELSE other.text

\* faulty variant: two QueryStrings are equal only when they also are the same
\* Repr variant (what a derived PartialEq would do)
eq_derived(h, self, other) ==
    /\ as_str(h, self) = other_as_ref(h, other)
    /\ other.isQuery => self.repr = other.val.repr

\* impl<T: AsRef<str>> PartialEq<T> for QueryString
eq(h, self, other) == as_str(h, self) = other_as_ref(h, other)

\* impl Hash for str: what it feeds the hasher (the bytes, then 0xff)
str_hash(s) == s \o <<255>>

\* the discriminant of each Repr variant
Discriminant(repr) ==
    CASE repr = "Slice" -> 0
      [] repr = "Static" -> 1
      [] repr = "Owned" -> 2
      [] repr = "Boxed" -> 3
      [] repr = "Arced" -> 4

\* faulty variant: the Repr discriminant is hashed before the text (what a
\* derived Hash would do)
hash_derived(h, self) == <<Discriminant(self.repr)>> \o str_hash(as_str(h, self))

\* impl Hash for QueryString: what it feeds the hasher
hash(h, self) == str_hash(as_str(h, self))

\* #[derive(Clone)] on QueryString and Repr: references and Arc share the
\* buffer, String and Box<str> copy it
clone(h, q) ==
    IF q.repr \in {"Owned", "Boxed"}
    THEN [heap |-> Append(h, Cell(h[q.ptr].kind, h[q.ptr].text, "clone")),
          val |-> QueryString(q.repr, Len(h) + 1)]
    ELSE [heap |-> h, val |-> QueryString(q.repr, q.ptr)]

NoVal == QueryString("none", 0)

Obs(op, i, other, text, flag, before, cells) ==
    [op |-> op, i |-> i, other |-> other, text |-> text, flag |-> flag,
     before |-> before, cells |-> cells]

NoObs == Obs("none", 0, OtherStr(<<>>), <<>>, FALSE, NoVal, 0)

Entry(q, origin) == [val |-> q, origin |-> origin]

InitQSVars ==
    /\ heap = <<>>
    /\ qs = <<>>
    /\ obs = NoObs

\* the caller has a string of text t and calls into_query_string on it
Construct ==
    /\ UNCHANGED <<bkdVars, stmtVars>>
    /\ \E path \in Paths, t \in Texts :
           /\ Len(qs) < MaxVals
           /\ heap' = Append(heap, Cell(SourceKind(path), t, "caller"))
           /\ qs' = Append(qs, Entry(into_query_string(path, Len(heap) + 1), t))
           /\ obs' = Obs("construct", Len(qs) + 1, OtherStr(t), <<>>, FALSE, NoVal,
                         Len(heap) + 1)

\* into_query_string on an existing QueryString
IntoQueryString ==
    /\ UNCHANGED <<bkdVars, stmtVars>>
    /\ \E i \in DOMAIN qs :
           /\ qs' = [qs EXCEPT ![i].val = into_query_string_self(@)]
           /\ obs' = Obs("into_query_string", i, OtherStr(<<>>), <<>>, FALSE,
                         qs[i].val, Len(heap))
           /\ UNCHANGED heap

IntoStatic ==
    /\ UNCHANGED <<bkdVars, stmtVars>>
    /\ \E i \in DOMAIN qs :
           LET r == into_static(heap, qs[i].val)
           IN  /\ heap' = r.heap
               /\ qs' = [qs EXCEPT ![i].val = r.val]
               /\ obs' = Obs("into_static", i, OtherStr(<<>>), <<>>, FALSE,
                             qs[i].val, Len(heap))

Clone ==
    /\ UNCHANGED <<bkdVars, stmtVars>>
    /\ \E i \in DOMAIN qs :
           /\ Len(qs) < MaxVals
           /\ LET r == clone(heap, qs[i].val)
              IN  /\ heap' = r.heap
                  /\ qs' = Append(qs, Entry(r.val, qs[i].origin))
                  /\ obs' = Obs("clone", i, OtherStr(<<>>), <<>>, FALSE, qs[i].val,
                                Len(heap))

AsStr ==
    /\ UNCHANGED <<bkdVars, stmtVars>>
    /\ \E i \in DOMAIN qs :
           /\ obs' = Obs("as_str", i, OtherStr(<<>>), as_str(heap, qs[i].val), FALSE,
                         qs[i].val, Len(heap))
           /\ UNCHANGED <<heap, qs>>

AsRef ==
    /\ UNCHANGED <<bkdVars, stmtVars>>
    /\ \E i \in DOMAIN qs :
           /\ obs' = Obs("as_ref", i, OtherStr(<<>>), as_ref(heap, qs[i].val), FALSE,
                         qs[i].val, Len(heap))
           /\ UNCHANGED <<heap, qs>>

Borrow ==
    /\ UNCHANGED <<bkdVars, stmtVars>>
    /\ \E i \in DOMAIN qs :
           /\ obs' = Obs("borrow", i, OtherStr(<<>>), borrow(heap, qs[i].val), FALSE,
                         qs[i].val, Len(heap))
           /\ UNCHANGED <<heap, qs>>

\* q == other, with other another QueryString or a plain string
Eq ==
    /\ UNCHANGED <<bkdVars, stmtVars>>
    /\ \E i \in DOMAIN qs :
           \E other \in {OtherQuery(j, qs[j].val) : j \in DOMAIN qs}
                           \cup {OtherStr(t) : t \in Texts} :
               /\ obs' = Obs("eq", i, other, <<>>, eq(heap, qs[i].val, other),
                             qs[i].val, Len(heap))
               /\ UNCHANGED <<heap, qs>>

Hash ==
    /\ UNCHANGED <<bkdVars, stmtVars>>
    /\ \E i \in DOMAIN qs :
           /\ obs' = Obs("hash", i, OtherStr(<<>>), hash(heap, qs[i].val), FALSE,
                         qs[i].val, Len(heap))
           /\ UNCHANGED <<heap, qs>>

(***************************************************************************)
(* Specifications                                                          *)
(***************************************************************************)
InitBKD == InitBKDVars /\ InitStmtVars /\ InitQSVars

NextBKD == Receive \/ Decode

SpecBKD == InitBKD /\ [][NextBKD]_vars

InitStmt ==
    /\ InitBKDVars
    /\ InitQSVars
    /\ prior \in PriorContents
    /\ buf = prior
    /\ next_id \in {[id |-> i, spent |-> FALSE] : i \in IdSamples}
    /\ calls = <<>>

NextStmt == SerializeUnnamed \/ SerializeNamed

SpecStmt == InitStmt /\ [][NextStmt]_vars

InitQS == InitBKDVars /\ InitStmtVars /\ InitQSVars

NextQS ==
    \/ Construct
    \/ IntoQueryString
    \/ IntoStatic
    \/ Clone
    \/ AsStr
    \/ AsRef
    \/ Borrow
    \/ Eq
    \/ Hash

SpecQS == InitQS /\ [][NextQS]_vars

(***************************************************************************)
(* Properties: BackendKeyData (checked under SpecBKD)                      *)
(***************************************************************************)
\* u32::to_be_bytes: the four bytes of a u32, most significant first
BeBytes(v) == <<v.hi \div 256, v.hi % 256, v.lo \div 256, v.lo % 256>>

IsU32(v) == v.hi \in 0..65535 /\ v.lo \in 0..65535

\* the u32 written by a sequence of decimal digits 0..9 (Horner, over the halves)
RECURSIVE FromDecimal(_)
FromDecimal(ds) ==
    IF ds = <<>> THEN U32Small(0)
    ELSE LET n == FromDecimal(SubSeq(ds, 1, Len(ds) - 1))
             l == n.lo * 10 + ds[Len(ds)]
         IN  U32(n.hi * 10 + l \div 65536, l % 65536)

Decoded == last.outcome # "none"

\* C1: decode on a payload of at least 8 bytes b0..b7 succeeds, process_id is
\* the unsigned big-endian value of b0..b3 and secret_key that of b4..b7; the
\* payload 00 00 27 C6 89 52 C5 2B yields 10182 and 2303903019.
C1_DecodeReadsBigEndianFields ==
    (Decoded /\ Len(last.input) >= 8) =>
        /\ last.outcome = "Ok"
        /\ last.msg.present
        /\ IsU32(process_id(last.msg))
        /\ IsU32(secret_key(last.msg))
        /\ BeBytes(process_id(last.msg)) = SubSeq(last.input, 1, 4)
        /\ BeBytes(secret_key(last.msg)) = SubSeq(last.input, 5, 8)
        /\ SubSeq(last.input, 1, 8) = <<0, 0, 39, 198, 137, 82, 197, 43>> =>
               /\ process_id(last.msg) = FromDecimal(<<1, 0, 1, 8, 2>>)
               /\ secret_key(last.msg) = FromDecimal(<<2, 3, 0, 3, 9, 0, 3, 0, 1, 9>>)

\* C1 witness: the payload of the repository's test has been decoded
C1_Witness ==
    /\ last.outcome = "Ok"
    /\ last.input = <<0, 0, 39, 198, 137, 82, 197, 43>>
    /\ secret_key(last.msg).hi >= 32768

\* the outcome that reports a malformed message (Error::Protocol)
Malformed == "Protocol"

Appended(i) == Drop(calls[i].after, Len(calls[i].before))

\* the ASCII bytes of "_sqlx_s_"
AsciiSqlxS == <<95, 115, 113, 108, 120, 95, 115, 95>>

\* the bytes of a name between the prefix and the terminator
DigitsOf(name) == SubSeq(name, 9, Len(name) - 1)

IsDecimalOf(ds, id) ==
    /\ Len(ds) >= 1
    /\ \A k \in DOMAIN ds : ds[k] \in 48..57
    /\ Len(ds) > 1 => ds[1] # 48
    /\ FromDecimal([k \in DOMAIN ds |-> ds[k] - 48]) = id

\* C2: Named(id) serializes to exactly "_sqlx_s_", the decimal digits of id (no
\* sign, no leading zeros, "0" for 0) and one NUL byte; Unnamed serializes to
\* exactly one NUL byte.
C2_NameIsPrefixDecimalNul ==
    \A i \in DOMAIN calls :
        LET name == Appended(i)
        IN  IF calls[i].ref.tag = "Named"
            THEN /\ Len(name) >= 10
                 /\ SubSeq(name, 1, 8) = AsciiSqlxS
                 /\ name[Len(name)] = 0
                 /\ IsDecimalOf(DigitsOf(name), calls[i].ref.id)
            ELSE name = <<0>>

\* C2 witness: Named(0), Unnamed and Named(u32::MAX) have been serialized
C2_Witness ==
    /\ Len(calls) = 3
    /\ calls[1].ref = Named(U32Small(0))
    /\ calls[2].ref = Unnamed
    /\ calls[3].ref = Named(U32Max)
    /\ Len(Appended(3)) = 19

\* C3: no two Named refs with different ids serialize to the same bytes, and
\* no Named ref serializes to the bytes of Unnamed.
C3_NamesAreUnique ==
    \A i, j \in DOMAIN calls :
        calls[i].ref # calls[j].ref => Appended(i) # Appended(j)

\* C3 witness: two ids that agree in their low 16 bits, and Unnamed, have been
\* serialized
C3_Witness ==
    /\ Len(calls) = 3
    /\ calls[1].ref = Named(U32Small(0))
    /\ calls[2].ref = Named(U32(1, 0))
    /\ calls[3].ref = Unnamed

RECURSIVE Flatten(_)
Flatten(ss) == IF ss = <<>> THEN <<>> ELSE ss[1] \o Flatten(Tail(ss))

NulCount(s) == Cardinality({k \in DOMAIN s : s[k] = 0})

\* C10: serialize_with returns Ok and only appends: the buffer afterwards is the
\* buffer before followed by the name, the name holds exactly one NUL byte, its
\* last; the buffer is its prior content followed by the individual
\* serializations in call order.
C10_SerializeOnlyAppends ==
    /\ \A i \in DOMAIN calls :
           /\ calls[i].result = "Ok"
           /\ IsPrefix(calls[i].before, calls[i].after)
           /\ Len(calls[i].after) > Len(calls[i].before)
           /\ NulCount(Appended(i)) = 1
           /\ calls[i].after[Len(calls[i].after)] = 0
    /\ buf = prior
               \o Flatten([i \in DOMAIN calls |->
                              serialize_with(calls[i].ref, <<>>).buf])

\* C10 witness: three refs have been serialized into a buffer that held bytes
\* (a NUL among them) before
C10_Witness ==
    /\ prior = <<66, 0, 49>>
    /\ Len(calls) = 3
    /\ calls[1].ref.tag = "Named"
    /\ calls[2].ref.tag = "Unnamed"
    /\ calls[3].ref.tag = "Named"

(***************************************************************************)
(* Properties: QueryString (checked under SpecQS)                          *)
(***************************************************************************)
Val(i) == qs[i].val

\* the text value number i was constructed from
Origin(i) == qs[i].origin

\* C4: whatever the construction path and whatever operations followed,
\* as_str() returns exactly the text the value was constructed from.
C4_TextNeverChanges ==
    /\ \A i \in DOMAIN qs : as_str(heap, Val(i)) = Origin(i)
    /\ obs.op = "as_str" => obs.text = Origin(obs.i)

\* C4 witness: as_str has been called on a value that was constructed from a
\* borrowed "S;", had its borrow erased and was then cloned
C4_Witness ==
    /\ obs.op = "as_str"
    /\ obs.text = <<83, 59>>
    /\ Val(obs.i).repr = "Boxed"
    /\ heap[Val(obs.i).ptr].by = "clone"
    /\ \E c \in DOMAIN heap : heap[c].by = "into_static"

\* C5: for two QueryStrings of any representations, a == b exactly when their
\* texts are equal, and equal values feed the hasher the same input.
C5_EqAndHashByTextOnly ==
    /\ \A i, j \in DOMAIN qs :
           /\ eq(heap, Val(i), OtherQuery(j, Val(j))) <=> Origin(i) = Origin(j)
           /\ eq(heap, Val(i), OtherQuery(j, Val(j))) =>
                  hash(heap, Val(i)) = hash(heap, Val(j))
    /\ (obs.op = "eq" /\ obs.other.isQuery) =>
           (obs.flag <=> Origin(obs.i) = Origin(obs.other.j))

\* C5 witness: a borrowed slice has been found equal to a shared Arc<str>
C5_Witness ==
    /\ obs.op = "eq"
    /\ obs.other.isQuery
    /\ obs.flag
    /\ Val(obs.i).repr = "Slice"
    /\ obs.other.val.repr = "Arced"

\* whether looking up key finds the entry stored under stored, in a table
\* that compares the hasher input and then the keys
Finds(storedFeed, keyFeed, keysEqual) == storedFeed = keyFeed /\ keysEqual

\* C6: q == s exactly when s is q's text; borrow() and as_ref() return q's
\* text; q hashes like the plain string of its text; so a lookup by a plain
\* string finds the entry stored under q exactly when the string is q's text.
C6_WrapperAndTextInterchangeable ==
    /\ \A i \in DOMAIN qs :
           /\ \A s \in Texts :
                  /\ eq(heap, Val(i), OtherStr(s)) <=> s = Origin(i)
                  /\ Finds(hash(heap, Val(i)), str_hash(s),
                           eq(heap, Val(i), OtherStr(s))) <=> s = Origin(i)
           /\ borrow(heap, Val(i)) = Origin(i)
           /\ as_ref(heap, Val(i)) = Origin(i)
           /\ hash(heap, Val(i)) = str_hash(Origin(i))
    /\ (obs.op = "eq" /\ ~obs.other.isQuery) =>
           (obs.flag <=> obs.other.text = Origin(obs.i))
    /\ obs.op \in {"borrow", "as_ref"} => obs.text = Origin(obs.i)
    /\ obs.op = "hash" => obs.text = str_hash(Origin(obs.i))

\* C6 witness: an owned String value has been hashed
C6_Witness ==
    /\ obs.op = "hash"
    /\ Val(obs.i).repr = "Owned"
    /\ obs.text = <<83, 59, 255>>

\* C7: into_static on a borrowed slice returns a Boxed value over a new
\* allocation holding the same text; on any other representation it returns
\* the same representation over the same buffer and allocates nothing.
C7_IntoStaticCopiesOnlySlice ==
    obs.op = "into_static" =>
        IF obs.before.repr = "Slice"
        THEN /\ Val(obs.i).repr = "Boxed"
             /\ Val(obs.i).ptr # obs.before.ptr
             /\ Len(heap) = obs.cells + 1
             /\ Val(obs.i).ptr = Len(heap)
             /\ heap[Val(obs.i).ptr].kind = "Box"
             /\ heap[Val(obs.i).ptr].text = heap[obs.before.ptr].text
             /\ heap[obs.before.ptr].text = Origin(obs.i)
        ELSE /\ Val(obs.i) = obs.before
             /\ Len(heap) = obs.cells

\* C7 witness: into_static has left an owned String alone, after an earlier
\* into_static copied a borrowed slice
C7_Witness ==
    /\ obs.op = "into_static"
    /\ obs.before.repr = "Owned"
    /\ \E c \in DOMAIN heap : heap[c].by = "into_static"

\* C8: the result of into_static never holds a borrowed slice, and a second
\* into_static returns the same representation over the same buffer with the
\* same text, allocating nothing.
C8_IntoStaticIdempotent ==
    /\ \A i \in DOMAIN qs :
           LET r1 == into_static(heap, Val(i))
               r2 == into_static(r1.heap, r1.val)
           IN  /\ r1.val.repr # "Slice"
               /\ r2.val = r1.val
               /\ r2.heap = r1.heap
               /\ as_str(r2.heap, r2.val) = Origin(i)
    /\ obs.op = "into_static" => Val(obs.i).repr # "Slice"

\* C8 witness: into_static has been applied to a value that an earlier
\* into_static had produced from a borrowed slice
C8_Witness ==
    /\ obs.op = "into_static"
    /\ obs.before.repr = "Boxed"
    /\ heap[obs.before.ptr].by = "into_static"
    /\ Val(obs.i) = obs.before

====
